---- MODULE Spec2Model ----
(***************************************************************************)
(* GraphOntologyModeler (src/ontology.py): the schema compiler             *)
(* (Ontology.load_ontology_from_yaml), the derived instance validator      *)
(* (Ontology.schema, a `schema` library object) and the instance loader    *)
(* (Ontology.load_topology, Topology).                                     *)
(*                                                                         *)
(* Documents are the nested values yaml.safe_load returns.  A mapping is   *)
(* kept as the sequence of its (key, value) items in iteration order, so   *)
(* that two documents with the same content and a different key order are *)
(* different inputs.                                                       *)
(***************************************************************************)
EXTENDS Integers, Sequences, FiniteSets, TLC

VARIABLES
    phase,      \* "start" | "compiled" | "failed" | "api" | "topology"
    metaDoc,    \* the meta-document given to the last compile
    compiled,   \* what load_ontology_from_yaml did: [outcome, ont]
    metaDoc2,   \* a second compile's meta-document (NoDoc before it)
    compiled2,  \* and what that compile did
    topDoc,     \* the instance document given to the last load_topology
    loaded,     \* what that load_topology did: [outcome, topology, created]
    prevDoc,    \* the same content in another key order, loaded just before
    prevLoaded, \* and what that load did
    lastEdge,   \* the MetaEdge given to the last direct Ontology.add_edge
    beforeEdges,\* meta_edges as it was before that add_edge
    calls,      \* number of direct calls made
    lastCall,   \* the last direct call on a Topology and what it did
    net         \* the module src/topology.py in the process: whether it is
                \* imported, and the hand-built Topology with its objects

vars == <<phase, metaDoc, compiled, metaDoc2, compiled2, topDoc, loaded,
          prevDoc, prevLoaded, lastEdge, beforeEdges, calls, lastCall, net>>

-----------------------------------------------------------------------------
(* YAML values.  Every value is a record of one shape.                     *)

Null == [t |-> "null", v |-> "", items |-> <<>>]
StrV(s) == [t |-> "str", v |-> s, items |-> <<>>]
IntV(s) == [t |-> "int", v |-> s, items |-> <<>>]
Item(key, val) == [k |-> key, val |-> val]
Dict(its) == [t |-> "dict", v |-> "", items |-> its]
\* a marker for "no document yet"; never a YAML value
NoDoc == [t |-> "nodoc", v |-> "", items |-> <<>>]

IsDict(x) == x.t = "dict"
Keys(d) == {d.items[i].k : i \in DOMAIN d.items}
\* the value under key, for a key of the mapping
Lookup(d, key) == LET i == CHOOSE j \in DOMAIN d.items : d.items[j].k = key
                  IN d.items[i].val

\* Python dicts used as registries: finite functions
EmptyMap == [x \in {} |-> Null]
Put(m, key, val) == [x \in (DOMAIN m) \cup {key} |-> IF x = key THEN val ELSE m[x]]
\* dict(d.items()): the mapping a YAML mapping denotes, order forgotten
AsMap(d) == [key \in Keys(d) |-> Lookup(d, key)]

-----------------------------------------------------------------------------
(* The `schema` library's checks that the program builds.                  *)

\* {str: schema.Or(None, object)}: a dict; the type key str is a required
\* key, so at least one item must match it; every value is accepted
AttributeMapOK(x) == IsDict(x) /\ Len(x.items) > 0

\* {str: schema.Or(None, {str: schema.Or(None, object)})}
DestinationMapOK(x) ==
    /\ IsDict(x)
    /\ Len(x.items) > 0
    /\ \A i \in DOMAIN x.items :
          x.items[i].val = Null \/ AttributeMapOK(x.items[i].val)

\* a faulty variant of EdgeDeclOK: the len(d) == 1 check is missing
EdgeDeclOK_NoLen(x) == DestinationMapOK(x)

\* schema.And({...}, lambda d: len(d) == 1)
EdgeDeclOK(x) == DestinationMapOK(x) /\ Len(x.items) = 1

\* the schema of one class body; the key 'attributes' is matched by
\* Opt('attributes') (a comparable, tried first), every other key by Opt(str)
ClassBodyOK(x) ==
    \/ x = Null
    \/ /\ IsDict(x)
       /\ \A i \in DOMAIN x.items :
             IF x.items[i].k = "attributes"
             THEN x.items[i].val = Null \/ AttributeMapOK(x.items[i].val)
             ELSE EdgeDeclOK(x.items[i].val)

\* Ontology.META_ONTOLOGY.validate(doc) raises no SchemaError
META_ONTOLOGY(doc) ==
    /\ IsDict(doc)
    /\ Len(doc.items) > 0
    /\ \A i \in DOMAIN doc.items : ClassBodyOK(doc.items[i].val)

-----------------------------------------------------------------------------
(* Validation conditions of the derived schema.                            *)

CondNone == [c |-> "none", ty |-> "", lit |-> Null]       \* the object None
CondType(ty) == [c |-> "type", ty |-> ty, lit |-> Null]   \* the type int, str
CondLit(x) == [c |-> "lit", ty |-> "", lit |-> x]         \* a literal value
CondRaise == [c |-> "raise", ty |-> "", lit |-> Null]     \* eval raised

\* eval(text) for the texts of the model: the builtin type names evaluate to
\* the types, any other name is undefined (NameError)
Eval(text) == IF text \in {"int", "str"} THEN CondType(text) ELSE CondRaise

\* if type(validation_condition) == str: validation_condition = eval(...)
Condition(spec) ==
    IF spec = Null THEN CondNone
    ELSE IF spec.t = "str" THEN Eval(spec.v)
    ELSE CondLit(spec)

-----------------------------------------------------------------------------
(* The Ontology object and the compile walk.                               *)
(* A compile state cs is the Ontology under construction (meta_nodes,      *)
(* meta_edges, the classes of the derived schema) with the exception that  *)
(* ended the walk, if any (err).  MetaNode objects are referred to by      *)
(* name: the registry never replaces the MetaNode of a name.               *)

\* Ontology.__init__
NewOntology == [meta_nodes |-> EmptyMap, meta_edges |-> EmptyMap,
                classes |-> EmptyMap, has_schema |-> FALSE, err |-> ""]

\* the edge_attributes of _parse_attribute_labels and the attributes argument
\* of MetaEdge: None, or a dict attribute -> literal or None
NoAttributes == [none |-> TRUE, m |-> EmptyMap]
Attributes(m) == [none |-> FALSE, m |-> m]

\* MetaEdge.__init__: attributes None becomes dict()
MetaEdge(source, destination, label, attributes) ==
    [source |-> source, destination |-> destination, label |-> label,
     attributes |-> IF attributes = NoAttributes THEN Attributes(EmptyMap)
                    ELSE attributes]

\* entries of a class's source_schema_dict
AttrEntry(cond) == [kind |-> "attr", cond |-> cond, attrs |-> EmptyMap]
EdgeEntry(attrs) == [kind |-> "edge", cond |-> CondNone, attrs |-> attrs]

\* a faulty variant of get_node: a new MetaNode replaces the registered one
get_node_replaces(o, name) == [o EXCEPT !.meta_nodes = Put(o.meta_nodes, name, {})]

\* Ontology.get_node: the registry after the call (the MetaNode of the name
\* is created with no attributes unless it is there already)
get_node(o, name) ==
    IF name \in DOMAIN o.meta_nodes THEN o
    ELSE [o EXCEPT !.meta_nodes = Put(o.meta_nodes, name, {})]

\* a faulty variant of add_edge: the first MetaEdge of a (source, label) is kept
add_edge_first_wins(o, edge) ==
    LET me == IF edge.source \in DOMAIN o.meta_edges
              THEN o.meta_edges[edge.source] ELSE EmptyMap
    IN IF edge.label \in DOMAIN me
       THEN [o EXCEPT !.meta_edges = Put(o.meta_edges, edge.source, me)]
       ELSE [o EXCEPT !.meta_edges =
                 Put(o.meta_edges, edge.source, Put(me, edge.label, edge))]

\* Ontology.add_edge
add_edge(o, edge) ==
    LET me == IF edge.source \in DOMAIN o.meta_edges
              THEN o.meta_edges[edge.source] ELSE EmptyMap
    IN [o EXCEPT !.meta_edges =
            Put(o.meta_edges, edge.source, Put(me, edge.label, edge))]

\* Ontology.get_edge_by_source_and_label: found, and the MetaEdge
has_edge(o, source_id, label) ==
    /\ source_id \in DOMAIN o.meta_edges
    /\ label \in DOMAIN o.meta_edges[source_id]
get_edge_by_source_and_label(o, source_id, label) == o.meta_edges[source_id][label]

\* Ontology._parse_source_attributes, from item i on; ssd is the class's
\* source_schema_dict
RECURSIVE _parse_source_attributes(_, _, _, _, _)
_parse_source_attributes(o, source, destination_labels, ssd, i) ==
    IF i > Len(destination_labels.items) THEN [o |-> o, ssd |-> ssd]
    ELSE LET it == destination_labels.items[i]
             cond == Condition(it.val)
         IN IF cond = CondRaise
            THEN [o |-> [o EXCEPT !.err = "NameError"], ssd |-> ssd]
            ELSE _parse_source_attributes(
                     [o EXCEPT !.meta_nodes[source] = @ \cup {it.k}],
                     source, destination_labels,
                     Put(ssd, it.k, AttrEntry(cond)), i + 1)

\* LITERAL_TYPES: what MetaEdge.attributes keeps of a validation condition
Visualized(cond) == IF cond.c = "lit" THEN cond.lit ELSE Null

\* Ontology._parse_attribute_labels, from item i on:
\* [err, edge_attributes, schema] with schema the attribute_labels_schema_dict
RECURSIVE ParseLabelsFrom(_, _, _, _)
ParseLabelsFrom(attribute_labels, m, asd, i) ==
    IF i > Len(attribute_labels.items)
    THEN [err |-> "", edge_attributes |-> Attributes(m), schema |-> asd]
    ELSE LET it == attribute_labels.items[i]
             cond == Condition(it.val)
         IN IF cond = CondRaise
            THEN [err |-> "NameError", edge_attributes |-> Attributes(m), schema |-> asd]
            ELSE ParseLabelsFrom(attribute_labels, Put(m, it.k, Visualized(cond)),
                                 Put(asd, it.k, cond), i + 1)

_parse_attribute_labels(attribute_labels) ==
    IF attribute_labels = Null
    THEN [err |-> "", edge_attributes |-> NoAttributes, schema |-> EmptyMap]
    ELSE ParseLabelsFrom(attribute_labels, EmptyMap, EmptyMap, 1)

\* a faulty variant of _parse_edges: the destination class is not registered
_parse_edges_NoDestination(o, source, edge_label, destination_labels, ssd) ==
    IF Len(destination_labels.items) > 1 \/ Len(destination_labels.items) = 0
    THEN [o |-> [o EXCEPT !.err = "AssertionError"], ssd |-> ssd]
    ELSE LET first == destination_labels.items[1]
             parsed == _parse_attribute_labels(first.val)
         IN IF parsed.err # ""
            THEN [o |-> [o EXCEPT !.err = parsed.err], ssd |-> ssd]
            ELSE [o |-> add_edge(o, MetaEdge(source, first.k, edge_label,
                                             parsed.edge_attributes)),
                  ssd |-> Put(ssd, edge_label, EdgeEntry(parsed.schema))]

\* Ontology._parse_edges
_parse_edges(o, source, edge_label, destination_labels, ssd) ==
    IF Len(destination_labels.items) > 1 \/ Len(destination_labels.items) = 0
    THEN [o |-> [o EXCEPT !.err = "AssertionError"], ssd |-> ssd]
    ELSE LET first == destination_labels.items[1]
             parsed == _parse_attribute_labels(first.val)
         IN IF parsed.err # ""
            THEN [o |-> [o EXCEPT !.err = parsed.err], ssd |-> ssd]
            ELSE [o |-> add_edge(get_node(o, first.k),
                                 MetaEdge(source, first.k, edge_label,
                                          parsed.edge_attributes)),
                  ssd |-> Put(ssd, edge_label, EdgeEntry(parsed.schema))]

\* Ontology._parse_source_schema, from item i of the class body on
RECURSIVE ParseSourceFrom(_, _, _, _, _)
ParseSourceFrom(o, source_label, edge_labels, ssd, i) ==
    IF i > Len(edge_labels.items) \/ o.err # "" THEN [o |-> o, ssd |-> ssd]
    ELSE LET it == edge_labels.items[i]
             step == IF it.val = Null
                     THEN [o |-> [o EXCEPT !.err = "AssertionError"], ssd |-> ssd]
                     ELSE IF it.k = "attributes"
                     THEN _parse_source_attributes(o, source_label, it.val, ssd, 1)
                     ELSE _parse_edges(o, source_label, it.k, it.val, ssd)
         IN ParseSourceFrom(step.o, source_label, edge_labels, step.ssd, i + 1)

_parse_source_schema(o, source_label, edge_labels) ==
    ParseSourceFrom(get_node(o, source_label), source_label, edge_labels, EmptyMap, 1)

\* Onthology.load_onthology_from_yaml (the earlier variant of the compiler) on
\* a class whose body is null: the class is registered before the test
RegistersNullBody(o, source_label) == get_node(o, source_label)

\* Ontology._parse_ontology_schema on a class whose body is null:
\*   if edge_labels is None: continue
SkipsNullBody(o, source_label) == o

\* Ontology._parse_ontology_schema, from item i of the meta-document on
RECURSIVE ParseOntologyFrom(_, _, _)
ParseOntologyFrom(o, ontology_dict, i) ==
    IF o.err # "" THEN o
    ELSE IF i > Len(ontology_dict.items) THEN [o EXCEPT !.has_schema = TRUE]
    ELSE LET it == ontology_dict.items[i]
         IN IF it.val = Null
            THEN ParseOntologyFrom(SkipsNullBody(o, it.k), ontology_dict, i + 1)
            ELSE LET r == _parse_source_schema(o, it.k, it.val)
                 IN ParseOntologyFrom(
                        IF r.o.err # "" THEN r.o
                        ELSE [r.o EXCEPT !.classes = Put(@, it.k, r.ssd)],
                        ontology_dict, i + 1)

_parse_ontology_schema(o, ontology_dict) == ParseOntologyFrom(o, ontology_dict, 1)

\* what a failed call leaves the caller with
NoOntology == [NewOntology EXCEPT !.err = "none"]

\* Ontology.load_ontology_from_yaml with the default meta_ontology:
\* [outcome, ont]; outcome is "ok" or the exception's class
load_ontology_from_yaml(doc) ==
    IF ~META_ONTOLOGY(doc) THEN [outcome |-> "SchemaError", ont |-> NoOntology]
    ELSE LET o == _parse_ontology_schema(NewOntology, doc)
         IN IF o.err # "" THEN [outcome |-> o.err, ont |-> NoOntology]
            ELSE [outcome |-> "ok", ont |-> o]

-----------------------------------------------------------------------------
(* The derived schema: Ontology.schema.validate(document).                 *)

\* Schema(validation_condition).validate(x): None and literals are compared
\* with ==, a type is checked with isinstance
CondOK(cond, x) ==
    CASE cond.c = "none" -> x = Null
      [] cond.c = "type" -> x.t = cond.ty
      [] OTHER -> x = cond.lit

\* attribute_labels_schema_dict: {Opt(attribute): condition}
EdgeAttributesOK(asd, x) ==
    /\ IsDict(x)
    /\ \A i \in DOMAIN x.items :
          /\ x.items[i].k \in DOMAIN asd
          /\ CondOK(asd[x.items[i].k], x.items[i].val)

\* {str: schema.Or(None, attribute_labels_schema_dict)}
DestinationsOK(asd, x) ==
    /\ IsDict(x)
    /\ Len(x.items) > 0
    /\ \A i \in DOMAIN x.items :
          x.items[i].val = Null \/ EdgeAttributesOK(asd, x.items[i].val)

\* source_schema_dict: {Opt(attribute): condition, Opt(edge label): {...}}
InstanceOK(ssd, x) ==
    /\ IsDict(x)
    /\ \A i \in DOMAIN x.items :
          /\ x.items[i].k \in DOMAIN ssd
          /\ IF ssd[x.items[i].k].kind = "attr"
             THEN CondOK(ssd[x.items[i].k].cond, x.items[i].val)
             ELSE DestinationsOK(ssd[x.items[i].k].attrs, x.items[i].val)

\* schema.Or(None, {str: schema.Or(None, source_schema_dict)})
ClassOK(ssd, x) ==
    \/ x = Null
    \/ /\ IsDict(x)
       /\ Len(x.items) > 0
       /\ \A i \in DOMAIN x.items :
             x.items[i].val = Null \/ InstanceOK(ssd, x.items[i].val)

\* a faulty variant of SchemaOK: keys that match no class are ignored
\* (ignore_extra_keys)
SchemaOK_ExtraKeys(o, doc) ==
    \/ doc = Null
    \/ /\ IsDict(doc)
       /\ \A i \in DOMAIN doc.items :
             doc.items[i].k \in DOMAIN o.classes
                 => ClassOK(o.classes[doc.items[i].k], doc.items[i].val)

\* Schema(schema.Or(None, ontology_schema_dict)).validate(doc) raises nothing
SchemaOK(o, doc) ==
    \/ doc = Null
    \/ /\ IsDict(doc)
       /\ \A i \in DOMAIN doc.items :
             /\ doc.items[i].k \in DOMAIN o.classes
             /\ ClassOK(o.classes[doc.items[i].k], doc.items[i].val)

-----------------------------------------------------------------------------
(* Topology and the load walk.  Node objects live in a heap (nodes); an    *)
(* object is its index, so two Nodes of one name are two objects.          *)

\* Topology.__init__; created counts the Node objects constructed so far
NewTopology == [instances |-> EmptyMap, nodes |-> <<>>, err |-> "", created |-> 0]

\* a faulty variant of TopologyOn: instances is one dict of the class, so a
\* new Topology sees every Node registered before
TopologyOn_SharedRegistry(heap) ==
    [NewTopology EXCEPT
        !.instances = [nm \in {heap[i].name : i \in DOMAIN heap} |->
                          CHOOSE i \in DOMAIN heap : heap[i].name = nm],
        !.nodes = heap]

\* Topology() in a process whose earlier calls left the Node objects of heap:
\* a new, empty registry; objects made from now on follow those of heap
TopologyOn(heap) == [NewTopology EXCEPT !.nodes = heap]

\* Node.__init__
Node(cls, name) ==
    [cls |-> cls, name |-> name, attribute_values |-> EmptyMap, outgoing_edges |-> {}]

\* a faulty variant of Edge: the attribute values given are dropped
Edge_NoAttributes(source, destination, label, attribute_values) ==
    [source |-> source, destination |-> destination, label |-> label,
     attribute_values |-> EmptyMap]

\* Edge.__init__: attribute_values None becomes dict()
Edge(source, destination, label, attribute_values) ==
    [source |-> source, destination |-> destination, label |-> label,
     attribute_values |-> IF attribute_values = Null THEN EmptyMap
                          ELSE AsMap(attribute_values)]

\* AbstractNode.id
id(node) == node.name

\* a newly constructed Node object on the heap
Alloc(T, node) == [T EXCEPT !.nodes = Append(@, node), !.created = @ + 1]

\* a faulty variant of add_instance: no assertion, the entry is replaced
add_instance_overwrites(T, n) == [T EXCEPT !.instances = Put(@, id(T.nodes[n]), n)]

\* Topology.add_instance, for the Node object n
add_instance(T, n) ==
    IF id(T.nodes[n]) \in DOMAIN T.instances
    THEN [T EXCEPT !.err = "AssertionError"]
    ELSE [T EXCEPT !.instances = Put(@, id(T.nodes[n]), n)]

\* Topology.get_instance: [T, inst]
get_instance(T, cls, name) ==
    IF id(Node(cls, name)) \in DOMAIN T.instances
    THEN [T |-> [T EXCEPT !.created = @ + 1], inst |-> T.instances[id(Node(cls, name))]]
    ELSE LET T1 == Alloc(T, Node(cls, name))
         IN [T |-> add_instance(T1, Len(T1.nodes)), inst |-> Len(T1.nodes)]

\* Ontology._create_topology_for_known_source, from destination i on
RECURSIVE CreateFrom(_, _, _, _, _, _)
CreateFrom(T, destination_cls, dests, source_instance, edge_label, i) ==
    IF T.err # "" \/ i > Len(dests.items) THEN T
    ELSE LET it == dests.items[i]
             got == get_instance(T, destination_cls, it.k)
             new_edge == Edge(source_instance, got.inst, edge_label, it.val)
         IN CreateFrom(
                [got.T EXCEPT !.nodes[source_instance].outgoing_edges = @ \cup {new_edge}],
                destination_cls, dests, source_instance, edge_label, i + 1)

_create_topology_for_known_source(o, T, destination_class_id, dests, source_instance, edge_label) ==
    IF destination_class_id \notin DOMAIN o.meta_nodes
    THEN [T EXCEPT !.err = "KeyError"]
    ELSE IF ~IsDict(dests) THEN [T EXCEPT !.err = "AttributeError"]
    ELSE CreateFrom(T, destination_class_id, dests, source_instance, edge_label, 1)

\* the keys of one instance, from item i on
RECURSIVE LabelsFrom(_, _, _, _, _, _)
LabelsFrom(o, T, source_class_id, attribute_labels, source_instance, i) ==
    IF T.err # "" \/ i > Len(attribute_labels.items) THEN T
    ELSE LET it == attribute_labels.items[i]
         IN LabelsFrom(o,
                IF ~has_edge(o, source_class_id, it.k)
                THEN [T EXCEPT !.nodes[source_instance].attribute_values =
                                   Put(@, it.k, it.val)]
                ELSE _create_topology_for_known_source(o, T,
                         get_edge_by_source_and_label(o, source_class_id, it.k).destination,
                         it.val, source_instance, it.k),
                source_class_id, attribute_labels, source_instance, i + 1)

\* the instances of one class, from item i on
RECURSIVE InstancesFrom(_, _, _, _, _)
InstancesFrom(o, T, source_class_id, source_instances, i) ==
    IF T.err # "" \/ i > Len(source_instances.items) THEN T
    ELSE LET it == source_instances.items[i]
             T1 == Alloc(T, Node(source_class_id, it.k))
             source_instance == Len(T1.nodes)
             T2 == IF ~IsDict(it.val) THEN [T1 EXCEPT !.err = "AttributeError"]
                   ELSE LabelsFrom(o, T1, source_class_id, it.val, source_instance, 1)
             T3 == IF T2.err # "" THEN T2 ELSE add_instance(T2, source_instance)
         IN InstancesFrom(o, T3, source_class_id, source_instances, i + 1)

\* Ontology._load_topology_for_given_source_class
_load_topology_for_given_source_class(o, T, source_class_id, source_instances) ==
    IF source_class_id \notin DOMAIN o.meta_nodes THEN [T EXCEPT !.err = "KeyError"]
    ELSE IF ~IsDict(source_instances) THEN [T EXCEPT !.err = "AttributeError"]
    ELSE InstancesFrom(o, T, source_class_id, source_instances, 1)

\* the loop of load_topology, from item i of the document on
RECURSIVE ClassesFrom(_, _, _, _)
ClassesFrom(o, T, topology_dict, i) ==
    IF T.err # "" \/ i > Len(topology_dict.items) THEN T
    ELSE ClassesFrom(o,
             _load_topology_for_given_source_class(o, T, topology_dict.items[i].k,
                                                   topology_dict.items[i].val),
             topology_dict, i + 1)

\* Ontology.validate_ontology_dict(topology_dict, self.schema) raises
\* nothing
validate_ontology_dict(o, doc) == SchemaOK(o, doc)

\* Ontology.load_topology, called when the Node objects of heap exist:
\* [outcome, topology, created]; outcome is "ok" or the exception's class,
\* topology is what the caller gets (nothing, on an exception), created the
\* number of Node objects constructed on the way
LoadOn(o, heap, doc) ==
    IF ~o.has_schema
    THEN [outcome |-> "AttributeError", topology |-> NewTopology, created |-> 0]
    ELSE IF ~validate_ontology_dict(o, doc)
    THEN [outcome |-> "SchemaError", topology |-> NewTopology, created |-> 0]
    ELSE IF ~IsDict(doc)
    THEN [outcome |-> "AttributeError", topology |-> NewTopology, created |-> 0]
    ELSE LET T == ClassesFrom(o, TopologyOn(heap), doc, 1)
         IN IF T.err # ""
            THEN [outcome |-> T.err, topology |-> NewTopology, created |-> T.created]
            ELSE [outcome |-> "ok", topology |-> T, created |-> T.created]

\* the first load_topology of a process
load_topology(o, doc) == LoadOn(o, <<>>, doc)

\* self after load_topology: the method and the methods it calls assign no
\* attribute of self and only read meta_nodes and meta_edges (subscript,
\* .get); schema.validate changes nothing
OntologyAfterLoad(o, doc) == o

-----------------------------------------------------------------------------
(* Inputs: the documents the operations are tried on.                      *)

MaxEntries == 3   \* entries (instances, attributes, edge destinations) of an instance document
MaxDests == 2     \* destinations listed under one edge label of a meta-document
MaxCalls == 3     \* direct registry calls on one Ontology

ClassNames == {"Host", "Service"}
InstanceNames == {"a", "b"}
AttrValues == {Null, IntV("4")}
EdgeAttrValues == {Null, Dict(<<Item("port", IntV("80"))>>)}

\* every sequence that lists the elements of S once
RECURSIVE Orderings(_)
Orderings(S) ==
    IF S = {} THEN {<<>>}
    ELSE UNION {{Append(p, x) : p \in Orderings(S \ {x})} : x \in S}

\* every sequence that lists at least lo and at most hi elements of S once
Selections(S, lo, hi) ==
    UNION {Orderings(A) : A \in {B \in SUBSET S : Cardinality(B) >= lo /\ Cardinality(B) <= hi}}

\* the documents with the content of v, in every iteration order of the keys
\* of every mapping in it
RECURSIVE Reorderings(_), ItemSeqs(_, _)
ItemSeqs(items, I) ==
    IF I = {} THEN {<<>>}
    ELSE UNION {{Append(p, Item(items[i].k, w)) :
                    p \in ItemSeqs(items, I \ {i}), w \in Reorderings(items[i].val)} :
                i \in I}
Reorderings(v) ==
    IF ~IsDict(v) THEN {v} ELSE {Dict(q) : q \in ItemSeqs(v.items, DOMAIN v.items)}

\* d[key] = val on a mapping: a new key goes last, an old one keeps its place
SetItem(d, key, val) ==
    IF key \in Keys(d)
    THEN LET i == CHOOSE j \in DOMAIN d.items : d.items[j].k = key
         IN Dict(SubSeq(d.items, 1, i - 1) \o <<Item(key, val)>>
                 \o SubSeq(d.items, i + 1, Len(d.items)))
    ELSE Dict(Append(d.items, Item(key, val)))

HasDictAt(d, key) == IsDict(d) /\ key \in Keys(d) /\ IsDict(Lookup(d, key))

\* the instance documents one more entry makes of d
Extensions(d) ==
    \* a class mapped to null
    {SetItem(d, c, Null) : c \in ClassNames \ Keys(d)}
    \cup
    \* an instance, mapped to null or to an empty mapping
    {SetItem(d, c, SetItem(IF c \in Keys(d) THEN Lookup(d, c) ELSE Dict(<<>>), n, body)) :
        <<c, n, body>> \in
            {x \in ClassNames \X InstanceNames \X {Null, Dict(<<>>)} :
                 x[1] \in Keys(d) => (IsDict(Lookup(d, x[1]))
                                      /\ x[2] \notin Keys(Lookup(d, x[1])))}}
    \cup
    \* an attribute of an instance
    {SetItem(d, c, SetItem(Lookup(d, c), n, SetItem(Lookup(Lookup(d, c), n), "cpu", val))) :
        <<c, n, val>> \in
            {x \in ClassNames \X InstanceNames \X AttrValues :
                 /\ HasDictAt(d, x[1]) /\ HasDictAt(Lookup(d, x[1]), x[2])
                 /\ "cpu" \notin Keys(Lookup(Lookup(d, x[1]), x[2]))}}
    \cup
    \* an edge destination of an instance
    {LET inst == Lookup(Lookup(d, c), n)
         runs == IF "runs" \in Keys(inst) THEN Lookup(inst, "runs") ELSE Dict(<<>>)
     IN SetItem(d, c, SetItem(Lookup(d, c), n,
                                SetItem(inst, "runs", SetItem(runs, m, ea)))) :
        <<c, n, m, ea>> \in
            {x \in ClassNames \X InstanceNames \X InstanceNames \X EdgeAttrValues :
                 /\ HasDictAt(d, x[1]) /\ HasDictAt(Lookup(d, x[1]), x[2])
                 /\ LET inst == Lookup(Lookup(d, x[1]), x[2])
                    IN "runs" \in Keys(inst) => x[3] \notin Keys(Lookup(inst, "runs"))}}

RECURSIVE DocsOf(_)
DocsOf(n) ==
    IF n = 0 THEN {Dict(<<>>)}
    ELSE LET D == DocsOf(n - 1) IN D \cup UNION {Extensions(d) : d \in D}

\* the instance documents load_topology is tried on
InstanceDocs == {Null} \cup DocsOf(MaxEntries)

MetaClassNames == {"Host", "Service", "Db"}
Specs == {Null, StrV("int"), StrV("bogus")}
AttributeMaps == {Dict(<<>>)} \cup {Dict(<<Item("cpu", sp)>>) : sp \in Specs}
EdgeAttributeMaps == {Null} \cup {Dict(<<Item("port", sp)>>) : sp \in {Null, StrV("int")}}
MetaEdgeAttributeMaps == {Null, Dict(<<Item("port", IntV("80"))>>)}

\* the items of a mapping with the keys of the sequence ks, in that order,
\* and any values of Vals
RECURSIVE ItemsOver(_, _)
ItemsOver(ks, Vals) ==
    IF ks = <<>> THEN {<<>>}
    ELSE {<<Item(Head(ks), val)>> \o rest : val \in Vals, rest \in ItemsOver(Tail(ks), Vals)}

\* what an edge label may be mapped to: up to MaxDests destination classes
DestinationMaps ==
    UNION {{Dict(its) : its \in ItemsOver(ks, MetaEdgeAttributeMaps)} :
           ks \in Selections(MetaClassNames, 0, MaxDests)}

\* the bodies of the class Host: attributes and one edge label, in any order
HostBodies ==
    {Null, Dict(<<>>)}
    \cup {Dict(<<Item("attributes", am)>>) : am \in {Null} \cup AttributeMaps}
    \cup {Dict(<<Item("runs", dm)>>) : dm \in DestinationMaps}
    \cup {Dict(<<Item("attributes", am), Item("runs", dm)>>) :
             am \in {Null} \cup AttributeMaps, dm \in DestinationMaps}
    \cup {Dict(<<Item("runs", dm), Item("attributes", am)>>) :
             am \in {Null} \cup AttributeMaps, dm \in DestinationMaps}

\* the bodies of the class Service: attributes alone
ServiceBodies ==
    {Null, Dict(<<Item("attributes", Dict(<<Item("cpu", StrV("int"))>>))>>)}

\* the meta-documents load_ontology_from_yaml is tried on
MetaDocs ==
    {Null, Dict(<<>>)}
    \cup {Dict(<<Item("Host", hb)>>) : hb \in HostBodies}
    \cup {Dict(<<Item("Service", sb)>>) : sb \in ServiceBodies}
    \cup {Dict(<<Item("Host", hb), Item("Service", sb)>>) :
             hb \in HostBodies, sb \in ServiceBodies}
    \cup {Dict(<<Item("Service", sb), Item("Host", hb)>>) :
             hb \in HostBodies, sb \in ServiceBodies}

\* the meta-documents whose Ontology instance documents are loaded with:
\* Host with an attribute and an edge, Service absent, null or with an
\* attribute
LoadMetaDocs ==
    {Dict(<<Item("Host", Dict(<<Item("attributes", Dict(<<Item("cpu", sp)>>)),
                                Item("runs", Dict(<<Item(dst, ea)>>))>>))>> \o svc) :
        sp \in {Null, StrV("int")}, dst \in ClassNames, ea \in EdgeAttributeMaps,
        svc \in {<<>>, <<Item("Service", Null)>>,
                 <<Item("Service", Dict(<<Item("attributes",
                                               Dict(<<Item("cpu", StrV("int"))>>))>>))>>}}

\* the MetaEdges direct add_edge calls are made with
ApiEdges ==
    {MetaEdge(src, dst, label, at) :
        src \in ClassNames, dst \in ClassNames, label \in {"runs", "uses"},
        at \in {NoAttributes, Attributes(Put(EmptyMap, "port", Null))}}

-----------------------------------------------------------------------------
(* The state machine.                                                      *)

NotCompiled == [outcome |-> "none", ont |-> NoOntology]
NotLoaded == [outcome |-> "none", topology |-> NewTopology, created |-> 0]
NoEdge == MetaEdge("", "", "", NoAttributes)
NoCall == [op |-> "none", cls |-> "", name |-> "", inst |-> 0, err |-> ""]
\* topology.Topology.__init__ (src/topology.py), with the heaps of the Node,
\* Interface and Service objects made for it; an object is its index
NewNet == [nodes |-> <<>>, ifs |-> <<>>, svcs |-> <<>>,
           t_nodes |-> {}, t_services |-> {}, t_interfaces |-> {}, err |-> ""]
\* the module topology in a process that has not imported it
NoNet == [module |-> "unimported", topology |-> NewNet]

Init ==
    /\ phase = "start"
    /\ metaDoc = NoDoc /\ compiled = NotCompiled
    /\ metaDoc2 = NoDoc /\ compiled2 = NotCompiled
    /\ topDoc = NoDoc /\ loaded = NotLoaded
    /\ prevDoc = NoDoc /\ prevLoaded = NotLoaded
    /\ lastEdge = NoEdge /\ beforeEdges = EmptyMap /\ calls = 0
    /\ lastCall = NoCall /\ net = NoNet

\* Ontology.load_ontology_from_yaml(file) on the meta-document m
CompileDoc(m) ==
    /\ phase = "start"
    /\ metaDoc' = m
    /\ compiled' = load_ontology_from_yaml(m)
    /\ phase' = IF compiled'.outcome = "ok" THEN "compiled" ELSE "failed"
    /\ UNCHANGED <<metaDoc2, compiled2, topDoc, loaded, prevDoc, prevLoaded,
                   lastEdge, beforeEdges, calls,
                   lastCall, net>>

Compile == \E m \in LoadMetaDocs : CompileDoc(m)

CompileAny == \E m \in MetaDocs : CompileDoc(m)

\* a second load_ontology_from_yaml, on the same content in any key order
Recompile ==
    /\ phase \in {"compiled", "failed"}
    /\ metaDoc2 = NoDoc
    /\ \E m \in Reorderings(metaDoc) :
          /\ metaDoc2' = m
          /\ compiled2' = load_ontology_from_yaml(m)
    /\ UNCHANGED <<phase, metaDoc, compiled, topDoc, loaded, prevDoc, prevLoaded,
                   lastEdge, beforeEdges, calls,
                   lastCall, net>>

\* ontology.load_topology(file) on an instance document (one document a
\* run; Reload loads one of its reorderings)
Load ==
    /\ phase = "compiled"
    /\ topDoc = NoDoc
    /\ \E doc \in InstanceDocs :
          /\ topDoc' = doc
          /\ loaded' = load_topology(compiled.ont, doc)
          /\ compiled' = [compiled EXCEPT !.ont = OntologyAfterLoad(@, doc)]
    /\ prevDoc' = NoDoc /\ prevLoaded' = NotLoaded
    /\ UNCHANGED <<phase, metaDoc, metaDoc2, compiled2,
                   lastEdge, beforeEdges, calls,
                   lastCall, net>>

\* ontology.load_topology(file) again, on the content of the last document
\* in another key order; the Topology of the last load is still held
Reload ==
    /\ phase = "compiled"
    /\ topDoc # NoDoc /\ prevDoc = NoDoc
    /\ \E doc \in Reorderings(topDoc) \ {topDoc} :
          /\ topDoc' = doc
          /\ loaded' = LoadOn(compiled.ont, loaded.topology.nodes, doc)
          /\ compiled' = [compiled EXCEPT !.ont = OntologyAfterLoad(@, doc)]
    /\ prevDoc' = topDoc /\ prevLoaded' = loaded
    /\ UNCHANGED <<phase, metaDoc, metaDoc2, compiled2,
                   lastEdge, beforeEdges, calls,
                   lastCall, net>>

Next == Compile \/ Load \/ Reload

Spec == Init /\ [][Next]_vars

NextCompile == CompileAny \/ Recompile

SpecCompile == Init /\ [][NextCompile]_vars

\* a caller's own Ontology(), filled through get_node and add_edge
InitRegistry ==
    /\ phase = "api"
    /\ metaDoc = NoDoc /\ compiled = [outcome |-> "ok", ont |-> NewOntology]
    /\ metaDoc2 = NoDoc /\ compiled2 = NotCompiled
    /\ topDoc = NoDoc /\ loaded = NotLoaded
    /\ prevDoc = NoDoc /\ prevLoaded = NotLoaded
    /\ lastEdge = NoEdge /\ beforeEdges = EmptyMap /\ calls = 0
    /\ lastCall = NoCall /\ net = NoNet

\* ontology.get_node(name)
GetNode ==
    /\ phase = "api" /\ calls < MaxCalls
    /\ \E name \in ClassNames :
          compiled' = [compiled EXCEPT !.ont = get_node(@, name)]
    /\ calls' = calls + 1
    /\ UNCHANGED <<phase, metaDoc, metaDoc2, compiled2, topDoc, loaded, prevDoc,
                   prevLoaded, lastEdge, beforeEdges,
                   lastCall, net>>

\* ontology.add_edge(edge)
AddEdge ==
    /\ phase = "api" /\ calls < MaxCalls
    /\ \E edge \in ApiEdges :
          /\ compiled' = [compiled EXCEPT !.ont = add_edge(@, edge)]
          /\ lastEdge' = edge
    /\ beforeEdges' = compiled.ont.meta_edges
    /\ calls' = calls + 1
    /\ UNCHANGED <<phase, metaDoc, metaDoc2, compiled2, topDoc, loaded, prevDoc,
                   prevLoaded,
                   lastCall, net>>

NextRegistry == GetNode \/ AddEdge

SpecRegistry == InitRegistry /\ [][NextRegistry]_vars

-----------------------------------------------------------------------------
(* What the claims speak of.                                               *)

\* the top-level entries of an instance document, each by the position of
\* its class and of its instance; iteration order is the order of positions
EntryPos(doc) ==
    IF ~IsDict(doc) THEN {}
    ELSE UNION {IF IsDict(doc.items[ci].val)
                THEN {<<ci, ii>> : ii \in DOMAIN doc.items[ci].val.items}
                ELSE {} : ci \in DOMAIN doc.items}
EntryClass(doc, p) == doc.items[p[1]].k
EntryName(doc, p) == doc.items[p[1]].val.items[p[2]].k
EntryBody(doc, p) == doc.items[p[1]].val.items[p[2]].val
Before(p, q) == p[1] < q[1] \/ (p[1] = q[1] /\ p[2] < q[2])

\* the keys of an entry that name a MetaEdge of its class
EdgeKeys(o, doc, p) ==
    IF ~IsDict(EntryBody(doc, p)) THEN {}
    ELSE {key \in Keys(EntryBody(doc, p)) :
             has_edge(o, EntryClass(doc, p), key) /\ IsDict(Lookup(EntryBody(doc, p), key))}

\* the (class, name) pairs the edges of an entry lead to
EntryDestinations(o, doc, p) ==
    UNION {{<<o.meta_edges[EntryClass(doc, p)][key].destination, n>> :
               n \in Keys(Lookup(EntryBody(doc, p), key))} :
           key \in EdgeKeys(o, doc, p)}

\* the attribute values an entry gives: its keys that name no MetaEdge
EntryAttributes(o, doc, p) ==
    LET body == EntryBody(doc, p)
    IN [key \in {x \in Keys(body) : ~has_edge(o, EntryClass(doc, p), x)} |->
            Lookup(body, key)]

\* the (class, name) pairs of a document: top-level entries and destinations
Pairs(o, doc) ==
    {<<EntryClass(doc, p), EntryName(doc, p)>> : p \in EntryPos(doc)}
    \cup UNION {EntryDestinations(o, doc, p) : p \in EntryPos(doc)}

\* the Node objects of a Topology: registered, or an end of an edge
Registered(T) == {T.instances[key] : key \in DOMAIN T.instances}
NodeObjects(T) ==
    Registered(T)
    \cup UNION {{e.source, e.destination} :
                e \in UNION {T.nodes[n].outgoing_edges : n \in Registered(T)}}
NodesOf(T, pr) == {n \in NodeObjects(T) : <<T.nodes[n].cls, T.nodes[n].name>> = pr}

\* a Topology by content: identities, attribute values, edges
Content(T) ==
    [ids |-> {<<T.nodes[n].cls, T.nodes[n].name>> : n \in NodeObjects(T)},
     attrs |-> {<<T.nodes[n].cls, T.nodes[n].name, T.nodes[n].attribute_values>> :
                   n \in NodeObjects(T)},
     edges |-> UNION {{<<T.nodes[e.source].cls, T.nodes[e.source].name, e.label,
                         T.nodes[e.destination].cls, T.nodes[e.destination].name,
                         e.attribute_values>> : e \in T.nodes[n].outgoing_edges} :
                      n \in NodeObjects(T)}]

\* entry q is the own top-level entry of a destination of the earlier entry p
ForwardReference(o, doc, p, q) ==
    /\ Before(p, q)
    /\ <<EntryClass(doc, q), EntryName(doc, q)>> \in EntryDestinations(o, doc, p)

\* a document in which no class and no instance is mapped to null
NoNulls(doc) ==
    /\ IsDict(doc)
    /\ \A ci \in DOMAIN doc.items : IsDict(doc.items[ci].val)
    /\ \A p \in EntryPos(doc) : IsDict(EntryBody(doc, p))

\* C1: an accepted document (of mappings throughout) in which an instance
\* is an edge destination before its own top-level entry loads, and the
\* Topology holds exactly one Node for that instance: the destination of
\* the edge, carrying the attribute values of the later entry.
C1_ForwardReference ==
    (topDoc # NoDoc /\ validate_ontology_dict(compiled.ont, topDoc) /\ NoNulls(topDoc)) =>
        \A p \in EntryPos(topDoc), q \in EntryPos(topDoc) :
            ForwardReference(compiled.ont, topDoc, p, q) =>
                /\ loaded.outcome = "ok"
                /\ LET T == loaded.topology
                       pr == <<EntryClass(topDoc, q), EntryName(topDoc, q)>>
                   IN /\ Cardinality(NodesOf(T, pr)) = 1
                      /\ \A n \in NodesOf(T, pr) :
                            /\ T.nodes[n].attribute_values =
                                   EntryAttributes(compiled.ont, topDoc, q)
                            /\ \E m \in NodeObjects(T) :
                                  /\ T.nodes[m].name = EntryName(topDoc, p)
                                  /\ \E e \in T.nodes[m].outgoing_edges :
                                        e.destination = n

\* C2: in a loaded Topology the Node objects are as many as the (class,
\* name) pairs of the document, one Node for each pair.
C2_IdentityDedup ==
    loaded.outcome = "ok" =>
        /\ Cardinality(NodeObjects(loaded.topology))
               = Cardinality(Pairs(compiled.ont, topDoc))
        /\ \A pr \in Pairs(compiled.ont, topDoc) :
              Cardinality(NodesOf(loaded.topology, pr)) = 1

\* C3: two documents that differ only in the iteration order of their keys
\* load with the same outcome and, loaded, give the same identities,
\* attribute values and edges.
C3_LoadOrderIndependence ==
    prevDoc # NoDoc =>
        /\ (prevLoaded.outcome = "ok") <=> (loaded.outcome = "ok")
        /\ loaded.outcome = "ok" =>
              Content(prevLoaded.topology) = Content(loaded.topology)

\* C4: load_topology returns a Topology or fails with the SchemaError of the
\* derived validator; a document the validator accepts is walked to the
\* end.
C4_LoadFailureContract ==
    topDoc # NoDoc =>
        /\ loaded.outcome \in {"ok", "SchemaError"}
        /\ validate_ontology_dict(compiled.ont, topDoc) => loaded.outcome = "ok"

\* a top-level class id of the document that is no class of the MetaModel
UnknownClass(o, doc) ==
    IsDict(doc) /\ \E key \in Keys(doc) : key \notin DOMAIN o.meta_nodes

\* C5: a document with a top-level class id that is no class of the
\* MetaModel fails with the SchemaError, before any Node is constructed, and
\* no Topology is returned.
C5_UnknownClassRejected ==
    (topDoc # NoDoc /\ UnknownClass(compiled.ont, topDoc)) =>
        /\ loaded.outcome = "SchemaError"
        /\ loaded.created = 0
        /\ loaded.topology = NewTopology

\* an unknown class beside a class of the MetaModel with an instance
C5_Witness ==
    /\ topDoc # NoDoc /\ UnknownClass(compiled.ont, topDoc)
    /\ \E p \in EntryPos(topDoc) : EntryClass(topDoc, p) \in DOMAIN compiled.ont.classes
    /\ loaded.outcome = "SchemaError"

\* some edge label of the meta-document is mapped to n destination classes
EdgeWithDestinations(doc, n) ==
    /\ IsDict(doc)
    /\ \E ci \in DOMAIN doc.items :
          /\ IsDict(doc.items[ci].val)
          /\ \E ki \in DOMAIN doc.items[ci].val.items :
                LET it == doc.items[ci].val.items[ki]
                IN it.k # "attributes" /\ IsDict(it.val) /\ Len(it.val.items) = n

MalformedEdge(doc) ==
    \E n \in (0 .. MaxDests) \ {1} : EdgeWithDestinations(doc, n)

\* C6: a meta-document with an edge label mapped to no destination class or
\* to more than one fails with the SchemaError of the pre-check, and the
\* caller gets no Ontology.
C6_MalformedMetaRejected ==
    /\ (metaDoc # NoDoc /\ MalformedEdge(metaDoc)) =>
          (phase = "failed" /\ compiled = [outcome |-> "SchemaError", ont |-> NoOntology])
    /\ (metaDoc2 # NoDoc /\ MalformedEdge(metaDoc2)) =>
          compiled2 = [outcome |-> "SchemaError", ont |-> NoOntology]

\* an edge label with two destination classes, rejected
C6_Witness ==
    /\ metaDoc # NoDoc /\ EdgeWithDestinations(metaDoc, 2)
    /\ ~EdgeWithDestinations(metaDoc, 0)
    /\ compiled.outcome = "SchemaError"

\* a MetaModel by content: classes, attribute sets, edge destinations
MetaModelView(o) ==
    [classes |-> DOMAIN o.meta_nodes,
     attributes |-> o.meta_nodes,
     edges |-> UNION {{<<src, label, o.meta_edges[src][label].destination>> :
                          label \in DOMAIN o.meta_edges[src]} :
                      src \in DOMAIN o.meta_edges}]

\* C7: two compiles of one meta-document, in the same or in another key
\* order, both succeed or both fail, and give the same classes, the same
\* attribute set for each class and the same (source, label) ->
\* destination mapping.
C7_CompileOrderIndependence ==
    metaDoc2 # NoDoc =>
        /\ (compiled.outcome = "ok") <=> (compiled2.outcome = "ok")
        /\ MetaModelView(compiled.ont) = MetaModelView(compiled2.ont)

\* a successful compile of another key order, with attributes and an edge
C7_Witness ==
    /\ metaDoc2 # NoDoc /\ metaDoc2 # metaDoc
    /\ compiled2.outcome = "ok"
    /\ \E c \in DOMAIN compiled2.ont.meta_nodes : compiled2.ont.meta_nodes[c] # {}
    /\ DOMAIN compiled2.ont.meta_edges # {}

EdgeBefore(src, label) == src \in DOMAIN beforeEdges /\ label \in DOMAIN beforeEdges[src]

\* C8: after add_edge the registry holds, for the (source, label) of the
\* call, the MetaEdge of the call and no other; every other (source, label)
\* is registered as before the call.
C8_EdgeUniqueness ==
    lastEdge # NoEdge =>
        \A src \in ClassNames, label \in {"runs", "uses"} :
            IF src = lastEdge.source /\ label = lastEdge.label
            THEN /\ has_edge(compiled.ont, src, label)
                 /\ get_edge_by_source_and_label(compiled.ont, src, label) = lastEdge
            ELSE /\ has_edge(compiled.ont, src, label) <=> EdgeBefore(src, label)
                 /\ EdgeBefore(src, label) =>
                       compiled.ont.meta_edges[src][label] = beforeEdges[src][label]

\* the call replaced a MetaEdge to another destination class, and another
\* label of the source was registered
C8_Witness ==
    /\ lastEdge # NoEdge
    /\ EdgeBefore(lastEdge.source, lastEdge.label)
    /\ beforeEdges[lastEdge.source][lastEdge.label].destination # lastEdge.destination
    /\ Cardinality(DOMAIN beforeEdges[lastEdge.source]) = 2

\* C9: after a successful compile every top-level key of the meta-document
\* is a class of meta_nodes, also a class whose body is null.
C9_ClassRegistration ==
    compiled.outcome = "ok" /\ metaDoc # NoDoc =>
        \A ci \in DOMAIN metaDoc.items :
            metaDoc.items[ci].k \in DOMAIN compiled.ont.meta_nodes

\* a document of the derived grammar in which every attribute and every
\* edge attribute that is given a value was declared with a null
\* validator-spec
OnlyNullSpecs(o, doc) ==
    /\ IsDict(doc)
    /\ \A ci \in DOMAIN doc.items :
          /\ doc.items[ci].k \in DOMAIN o.classes
          /\ IsDict(doc.items[ci].val) /\ Len(doc.items[ci].val.items) > 0
    /\ \A p \in EntryPos(doc) :
          /\ IsDict(EntryBody(doc, p))
          /\ \A ki \in DOMAIN EntryBody(doc, p).items :
                LET it == EntryBody(doc, p).items[ki]
                    ssd == o.classes[EntryClass(doc, p)]
                IN /\ it.k \in DOMAIN ssd
                   /\ IF ssd[it.k].kind = "attr" THEN ssd[it.k].cond = CondNone
                      ELSE /\ IsDict(it.val) /\ Len(it.val.items) > 0
                           /\ \A di \in DOMAIN it.val.items :
                                 \/ it.val.items[di].val = Null
                                 \/ /\ IsDict(it.val.items[di].val)
                                    /\ \A ai \in DOMAIN it.val.items[di].val.items :
                                          LET at == it.val.items[di].val.items[ai]
                                          IN /\ at.k \in DOMAIN ssd[it.k].attrs
                                             /\ ssd[it.k].attrs[at.k] = CondNone

\* C10: the derived validator accepts every value of an attribute or edge
\* attribute declared with a null validator-spec.
C10_NullValidatorAcceptsAnything ==
    (topDoc # NoDoc /\ OnlyNullSpecs(compiled.ont, topDoc)) =>
        loaded.outcome # "SchemaError"

\* the edges an entry asks for, each as <<label, destination name,
\* attribute values>>
EntryEdges(o, doc, p) ==
    UNION {{<<key, it.k, IF it.val = Null THEN EmptyMap ELSE AsMap(it.val)>> :
               it \in {Lookup(EntryBody(doc, p), key).items[i] :
                          i \in DOMAIN Lookup(EntryBody(doc, p), key).items}} :
           key \in EdgeKeys(o, doc, p)}

\* C11: in a loaded Topology the Node of every top-level instance has, for
\* each key that names a MetaEdge of its class, exactly one outgoing Edge
\* per destination name under the key (with the key as label, the instance
\* as source and the given attribute values, none if null), has every other
\* key with its value in attribute_values, and has nothing more.
C11_AttributeEdgeSplit ==
    loaded.outcome = "ok" =>
        \A p \in EntryPos(topDoc) :
            /\ EntryName(topDoc, p) \in DOMAIN loaded.topology.instances
            /\ LET T == loaded.topology
                   n == T.instances[EntryName(topDoc, p)]
                   want == EntryEdges(compiled.ont, topDoc, p)
               IN /\ T.nodes[n].cls = EntryClass(topDoc, p)
                  /\ T.nodes[n].attribute_values = EntryAttributes(compiled.ont, topDoc, p)
                  /\ {<<e.label, T.nodes[e.destination].name, e.attribute_values>> :
                         e \in T.nodes[n].outgoing_edges} = want
                  /\ Cardinality(T.nodes[n].outgoing_edges) = Cardinality(want)
                  /\ \A e \in T.nodes[n].outgoing_edges : e.source = n

\* the round trip of one Host with an attribute and one edge with an
\* attribute to a Service: two Nodes and one Edge
C11_Witness ==
    /\ loaded.outcome = "ok"
    /\ Cardinality(EntryPos(topDoc)) = 1
    /\ \E p \in EntryPos(topDoc) :
          /\ EntryClass(topDoc, p) = "Host"
          /\ DOMAIN EntryAttributes(compiled.ont, topDoc, p) = {"cpu"}
          /\ \E x \in EntryEdges(compiled.ont, topDoc, p) : x[3] # EmptyMap
          /\ Cardinality(EntryEdges(compiled.ont, topDoc, p)) = 1
    /\ Cardinality(NodeObjects(loaded.topology)) = 2
    /\ \E n \in NodeObjects(loaded.topology) : loaded.topology.nodes[n].cls = "Service"

\* the Edge objects of a Topology
EdgesOf(T) == UNION {T.nodes[n].outgoing_edges : n \in NodeObjects(T)}

\* C12: every load_topology, successful or failing, leaves meta_nodes with
\* each attribute set, meta_edges and the derived schema as the compile
\* made them; and the Topology of a second load on the same Ontology is
\* what a first load gives, with a registry of its own and Node and Edge
\* objects of its own, the objects of the first Topology left as they were.
C12_LoadFrame ==
    /\ topDoc # NoDoc => compiled = load_ontology_from_yaml(metaDoc)
    /\ prevDoc # NoDoc =>
          /\ loaded.outcome = load_topology(compiled.ont, topDoc).outcome
          /\ (prevLoaded.outcome = "ok" /\ loaded.outcome = "ok") =>
                LET T1 == prevLoaded.topology
                    T2 == loaded.topology
                IN /\ NodeObjects(T1) \cap NodeObjects(T2) = {}
                   /\ Registered(T1) \cap Registered(T2) = {}
                   /\ \A e \in EdgesOf(T2) :
                         {e.source, e.destination} \cap NodeObjects(T1) = {}
                   /\ \A n \in DOMAIN T1.nodes : T2.nodes[n] = T1.nodes[n]

\* two successful loads on one Ontology, each Topology with an edge
C12_Witness ==
    /\ prevDoc # NoDoc
    /\ prevLoaded.outcome = "ok" /\ loaded.outcome = "ok"
    /\ EdgesOf(prevLoaded.topology) # {}
    /\ EdgesOf(loaded.topology) # {}
    /\ Cardinality(NodeObjects(loaded.topology)) = 2

\* C13: a meta-document that META_ONTOLOGY accepts, a class body with
\* `attributes: null` included, is compiled without tripping an assertion
\* of the walk ('has no children', 'has more than one destination', 'is
\* missing a destination').
C13_CompileFailureContract ==
    (metaDoc # NoDoc /\ META_ONTOLOGY(metaDoc)) => compiled.outcome # "AssertionError"

\* C14: in a loaded Topology every Edge has a label that names a MetaEdge
\* of the class of its source, and its destination is a Node of that
\* MetaEdge's destination class.
C14_EdgeConformance ==
    loaded.outcome = "ok" =>
        \A e \in EdgesOf(loaded.topology) :
            LET T == loaded.topology
                src == T.nodes[e.source].cls
            IN /\ has_edge(compiled.ont, src, e.label)
               /\ T.nodes[e.destination].cls =
                      get_edge_by_source_and_label(compiled.ont, src, e.label).destination

-----------------------------------------------------------------------------
(* The import of src/topology.py.                                           *)

\* the class statements of the module, in order: whether the class is under
\* @functools.total_ordering and the ordering operations its body defines
ModuleClasses ==
    << [name |-> "Port", decorated |-> TRUE, ops |-> {}],
       [name |-> "Network", decorated |-> TRUE, ops |-> {}],
       [name |-> "Interface", decorated |-> TRUE, ops |-> {"__lt__"}],
       [name |-> "Service", decorated |-> TRUE, ops |-> {"__lt__"}],
       [name |-> "Node", decorated |-> TRUE, ops |-> {"__lt__"}],
       [name |-> "Topology", decorated |-> FALSE, ops |-> {}] >>

\* functools.total_ordering(cls): a class that defines none of < > <= >=
\* is refused
total_ordering(cls) == IF cls.ops = {} THEN "ValueError" ELSE "ok"

\* the class statements from the i-th on: the first exception ends the
\* import
RECURSIVE ImportFrom(_)
ImportFrom(i) ==
    IF i > Len(ModuleClasses) THEN "ok"
    ELSE IF ModuleClasses[i].decorated /\ total_ordering(ModuleClasses[i]) # "ok"
    THEN total_ordering(ModuleClasses[i])
    ELSE ImportFrom(i + 1)

\* import topology: "ok" or the exception's class
import_topology == ImportFrom(1)

-----------------------------------------------------------------------------
(* A caller's own Topology(), filled through add_instance and get_instance, *)
(* in a process that may import src/topology.py.                            *)
(* loaded.topology is that Topology, prevLoaded what it was before the last *)
(* call.  An exception goes to the caller, who keeps the Topology.          *)

InitTopology ==
    /\ phase = "topology"
    /\ metaDoc = NoDoc /\ compiled = NotCompiled
    /\ metaDoc2 = NoDoc /\ compiled2 = NotCompiled
    /\ topDoc = NoDoc /\ loaded = [NotLoaded EXCEPT !.outcome = "ok"]
    /\ prevDoc = NoDoc /\ prevLoaded = NotLoaded
    /\ lastEdge = NoEdge /\ beforeEdges = EmptyMap /\ calls = 0
    /\ lastCall = NoCall /\ net = NoNet

\* topology.add_instance(Node(cls, name))
AddInstance ==
    /\ phase = "topology" /\ calls < MaxCalls
    /\ \E cls \in ClassNames, name \in InstanceNames :
          LET T1 == Alloc(loaded.topology, Node(cls, name))
              T2 == add_instance(T1, Len(T1.nodes))
          IN /\ loaded' = [loaded EXCEPT !.topology = [T2 EXCEPT !.err = ""]]
             /\ lastCall' = [op |-> "add_instance", cls |-> cls, name |-> name,
                             inst |-> Len(T1.nodes), err |-> T2.err]
    /\ prevLoaded' = loaded
    /\ calls' = calls + 1
    /\ UNCHANGED <<phase, metaDoc, compiled, metaDoc2, compiled2, topDoc, prevDoc,
                   lastEdge, beforeEdges, net>>

\* topology.get_instance(cls, name)
GetInstance ==
    /\ phase = "topology" /\ calls < MaxCalls
    /\ \E cls \in ClassNames, name \in InstanceNames :
          LET got == get_instance(loaded.topology, cls, name)
          IN /\ loaded' = [loaded EXCEPT !.topology = [got.T EXCEPT !.err = ""]]
             /\ lastCall' = [op |-> "get_instance", cls |-> cls, name |-> name,
                             inst |-> got.inst, err |-> got.T.err]
    /\ prevLoaded' = loaded
    /\ calls' = calls + 1
    /\ UNCHANGED <<phase, metaDoc, compiled, metaDoc2, compiled2, topDoc, prevDoc,
                   lastEdge, beforeEdges, net>>

\* import topology
ImportTopology ==
    /\ phase = "topology" /\ net.module = "unimported"
    /\ net' = [net EXCEPT !.module = import_topology]
    /\ UNCHANGED <<phase, metaDoc, compiled, metaDoc2, compiled2, topDoc, loaded,
                   prevDoc, prevLoaded, lastEdge, beforeEdges, calls, lastCall>>

NextTopology == AddInstance \/ GetInstance \/ ImportTopology

SpecTopology == InitTopology /\ [][NextTopology]_vars

\* the identity of the last call's Node was registered before the call
WasRegistered ==
    /\ lastCall.op # "none"
    /\ id(Node(lastCall.cls, lastCall.name)) \in DOMAIN prevLoaded.topology.instances

\* C15: add_instance with a Node whose identity is registered fails with the
\* assertion and get_instance with a registered identity returns the
\* registered Node; either way the registry and its Nodes are as before.
C15_AddInstanceFailFast ==
    WasRegistered =>
        LET B == prevLoaded.topology
            A == loaded.topology
        IN /\ A.instances = B.instances
           /\ \A n \in DOMAIN B.nodes : A.nodes[n] = B.nodes[n]
           /\ lastCall.op = "add_instance" => lastCall.err = "AssertionError"
           /\ lastCall.op = "get_instance" =>
                 /\ lastCall.err = ""
                 /\ lastCall.inst = B.instances[id(Node(lastCall.cls, lastCall.name))]

\* a second Node of a registered identity was given to add_instance, beside
\* another registered Node
C15_Witness ==
    /\ WasRegistered
    /\ lastCall.op = "add_instance" /\ lastCall.err = "AssertionError"
    /\ Cardinality(DOMAIN loaded.topology.instances) = 2


\* the (class, name) pairs with a top-level entry of their own
TopLevelPairs(doc) == {<<EntryClass(doc, p), EntryName(doc, p)>> : p \in EntryPos(doc)}

\* C16: in a loaded Topology the Node of every top-level entry and every
\* Edge destination is the Node registered under its identity, every Edge
\* of a Node's outgoing_edges has that Node as source, and a destination
\* (class, name) with no top-level entry of its own is registered as a Node
\* of that class and name with no attribute values and no outgoing edges.
C16_ReferentialIntegrity ==
    loaded.outcome = "ok" =>
        LET T == loaded.topology
        IN /\ \A pr \in TopLevelPairs(topDoc) :
                 /\ pr[2] \in DOMAIN T.instances
                 /\ T.nodes[T.instances[pr[2]]].cls = pr[1]
           /\ \A e \in EdgesOf(T) :
                 /\ T.nodes[e.destination].name \in DOMAIN T.instances
                 /\ T.instances[T.nodes[e.destination].name] = e.destination
           /\ \A n \in NodeObjects(T) : \A e \in T.nodes[n].outgoing_edges : e.source = n
           /\ \A p \in EntryPos(topDoc) :
                 \A d \in EntryDestinations(compiled.ont, topDoc, p) \ TopLevelPairs(topDoc) :
                     \E n \in Registered(T) :
                         /\ T.nodes[n].cls = d[1] /\ T.nodes[n].name = d[2]
                         /\ T.nodes[n].attribute_values = EmptyMap
                         /\ T.nodes[n].outgoing_edges = {}


\* the MetaEdges of an Ontology
MetaEdgesOf(o) ==
    UNION {{o.meta_edges[src][label] : label \in DOMAIN o.meta_edges[src]} :
           src \in DOMAIN o.meta_edges}

\* C17: after a successful compile the source and the destination class of
\* every MetaEdge are in meta_nodes (a destination class with no top-level
\* entry of its own has an empty attribute set), every class of the derived
\* schema is in meta_nodes, and no load_topology fails on a meta_nodes
\* lookup.
C17_ClassLookups ==
    (compiled.outcome = "ok" /\ metaDoc # NoDoc) =>
        /\ \A e \in MetaEdgesOf(compiled.ont) :
              /\ e.source \in DOMAIN compiled.ont.meta_nodes
              /\ e.destination \in DOMAIN compiled.ont.meta_nodes
              /\ e.destination \notin Keys(metaDoc) =>
                    compiled.ont.meta_nodes[e.destination] = {}
        /\ DOMAIN compiled.ont.classes \subseteq DOMAIN compiled.ont.meta_nodes
        /\ loaded.outcome # "KeyError"

\* a loaded edge to a Node of a class that only an edge declaration names
C17_Witness ==
    /\ compiled.outcome = "ok" /\ loaded.outcome = "ok"
    /\ \E e \in EdgesOf(loaded.topology) :
          /\ loaded.topology.nodes[e.destination].cls \notin Keys(metaDoc)
          /\ loaded.topology.nodes[e.destination].cls \in DOMAIN compiled.ont.meta_nodes


-----------------------------------------------------------------------------
(* The methods of the hand-built topology of src/topology.py.  N is the     *)
(* Topology with its objects; N.err is the exception of the last call, if   *)
(* it raised one.  No process gets to call them: the import of the module   *)
(* fails (import_topology).                                                 *)

\* the attribute `host` of an Interface that Node.attach has not touched:
\* the method Interface.host
HostMethod == 0

\* Topology.node
Topology_node(N, n) == [N EXCEPT !.t_nodes = @ \cup {n}]
\* Topology.service
Topology_service(N, s) == [N EXCEPT !.t_services = @ \cup {s}]
\* Topology.interface
Topology_interface(N, i) == [N EXCEPT !.t_interfaces = @ \cup {i}]

\* Topology.add_node
add_node(N, hostname) ==
    LET N1 == [N EXCEPT !.nodes = Append(@, [hostname |-> hostname, interfaces |-> {},
                                             services |-> {}])]
    IN Topology_node(N1, Len(N1.nodes))

\* Node.host: service.host = self
Node_host(N, n, s) == [N EXCEPT !.nodes[n].services = @ \cup {s}, !.svcs[s].host = n]

\* Node.attach: interface.host = self, which hides the method Interface.host
\* of that Interface
attach(N, n, i) == [N EXCEPT !.nodes[n].interfaces = @ \cup {i}, !.ifs[i].host = n]

\* Node.add_interface
add_interface(N, n, name) ==
    LET N1 == [N EXCEPT !.ifs = Append(@, [node |-> n, name |-> name, connected_to |-> {},
                                           services |-> {}, host |-> HostMethod])]
        i == Len(N1.ifs)
    IN attach(Topology_interface(N1, i), n, i)

\* Service.__init__
NewService(n, name) == [node |-> n, name |-> name, uses |-> {}, binds |-> {}, host |-> 0]

\* Node.add_service
Node_add_service(N, n, name) ==
    LET N1 == [N EXCEPT !.svcs = Append(@, NewService(n, name))]
        s == Len(N1.svcs)
    IN Node_host(Topology_service(N1, s), n, s)

\* interface.host(service): Interface.host, unless the attribute host of the
\* Interface is a Node, which is not callable
Interface_host(N, i, s) ==
    IF N.ifs[i].host # HostMethod THEN [N EXCEPT !.err = "TypeError"]
    ELSE [N EXCEPT !.ifs[i].services = @ \cup {s}, !.svcs[s].binds = @ \cup {i}]

\* Interface.add_service
Interface_add_service(N, i, name) ==
    LET N1 == [N EXCEPT !.svcs = Append(@, NewService(N.ifs[i].node, name))]
        s == Len(N1.svcs)
    IN Interface_host(Topology_service(N1, s), i, s)

\* Service.bind_to
bind_to(N, s, i) == Interface_host(N, i, s)

\* Interface.connect_to
connect_to(N, i, j) ==
    [[N EXCEPT !.ifs[i].connected_to = @ \cup {j}] EXCEPT !.ifs[j].connected_to = @ \cup {i}]

\* Service.use
use(N, s, t) == [N EXCEPT !.svcs[s].uses = @ \cup {t}]

\* (a), (b) and (c) for the Topology N and its objects
NetConsistent(N) ==
    /\ \A s \in N.t_services : s \in N.nodes[N.svcs[s].node].services
    /\ \A i \in N.t_interfaces : i \in N.nodes[N.ifs[i].node].interfaces
    /\ \A i \in DOMAIN N.ifs, s \in DOMAIN N.svcs :
          s \in N.ifs[i].services <=> i \in N.svcs[s].binds
    /\ \A i \in DOMAIN N.ifs, j \in DOMAIN N.ifs :
          i \in N.ifs[j].connected_to <=> j \in N.ifs[i].connected_to

\* C18: once src/topology.py is imported its classes are there to build a
\* topology with, and in the hand-built topology (a) every Service of
\* Topology.services is in the services of its node and every Interface of
\* Topology.interfaces in the interfaces of its node, (b) a Service is in
\* the services of an Interface exactly when the Interface is in its binds,
\* (c) connected_to is symmetric.
C18_HandBuiltConsistency ==
    net.module # "unimported" =>
        /\ net.module = "ok"
        /\ NetConsistent(net.topology)

====
